---- MODULE Spec2Model ----
(***************************************************************************)
(* Model of the ObjectDetection React component                            *)
(* (src/app/components/objectDetection.js): the email gate, the effect     *)
(* that loads the COCO-SSD model, the 100 ms detection interval and the    *)
(* effect cleanup.                                                         *)
(*                                                                         *)
(* Every render of the component creates fresh closures and a fresh        *)
(* `let detectInterval`.  The effect has the dependency list [started], so *)
(* only two renders ever contribute an effect closure: the mount render    *)
(* (closure 0) and the render in which `started` changed (closure 1).      *)
(* runCoco, runObjectDetection, `email` and `detectInterval` of a closure  *)
(* are the ones of the render it was created in.                           *)
(***************************************************************************)
EXTENDS Integers, Sequences, FiniteSets, TLC

\* ---------------------------------------------------------------- bounds
MaxLen == 5
MaxTicks == 2

\* ------------------------------------------------------------- constants
HAVE_ENOUGH_DATA == 4

Chars == {"a", "@", ".", " "}
Closures == {0, 1}
Null == "null"
VideoDims == {<<640, 480>>, <<1280, 720>>}
DefaultCanvas == <<300, 150>>
ErrRequired == "Email is required"
ErrInvalid == "Please enter a valid email address"

RECURSIVE StringsUpTo(_)
StringsUpTo(n) ==
    IF n = 0 THEN {<<>>}
    ELSE LET S == StringsUpTo(n - 1)
         IN  S \cup {Append(s, c) : s \in {t \in S : Len(t) = n - 1}, c \in Chars}

Emails == StringsUpTo(MaxLen)

\* the values one edit of the input field can produce from e: one more
\* character typed at the end, or the last character deleted (every string
\* of Emails is reached by a sequence of such edits)
Edits(e) ==
    (IF Len(e) < MaxLen THEN {Append(e, c) : c \in Chars} ELSE {})
        \cup (IF Len(e) > 0 THEN {SubSeq(e, 1, Len(e) - 1)} ELSE {})

VARIABLES
    phase,            \* "created" | "mounted" | "unmounted"
    email,            \* useState("")
    emailError,       \* useState("")
    started,          \* useState(false)
    isLoading,        \* useState(false)
    webCamRef,        \* useRef(null).current
    canvasRef,        \* useRef(null).current
    readyState,       \* webCamRef.current.video.readyState
    videoDim,         \* <<videoWidth, videoHeight>> of the stream
    videoAttr,        \* <<video.width, video.height>> attributes
    canvasDim,        \* <<canvas.width, canvas.height>>
    load,             \* per closure: state of its cocoSSDLoad() promise
    detectInterval,   \* per closure: its `let detectInterval` (0 = undefined)
    liveTimers,       \* interval ids that are scheduled in the browser
    effectClosure,    \* closure whose cleanup is currently registered
    closureEmail,     \* per closure: the `email` it captured
    inflight,         \* net.detect() promises not yet settled
    lastDraw,         \* arguments/context of the last showPredictions call
    faults,           \* kinds of unhandled rejections seen so far
    loadCount,        \* number of cocoSSDLoad() calls
    tickCount,        \* number of interval callbacks fired
    detectCalls,      \* number of net.detect() calls
    drawCount,        \* number of showPredictions() calls
    lastReject,       \* the last rejected net.detect() call, and when
    lastOp,           \* whether the last step was a click on the button
    activations       \* number of false -> true changes of `started`

vars == <<phase, email, emailError, started, isLoading, webCamRef, canvasRef,
          readyState, videoDim, videoAttr, canvasDim, load, detectInterval,
          liveTimers, effectClosure, closureEmail, inflight, lastDraw, faults,
          loadCount, tickCount, detectCalls, drawCount, lastReject, lastOp,
          activations>>

uiVars == <<email, emailError, started, activations>>
videoVars == <<readyState, videoDim, videoAttr>>
loopVars == <<inflight, lastDraw, tickCount, detectCalls, drawCount, lastReject>>

\* lastOp after a click on the button (with the error shown before it) and
\* after any other step
SubmitOp(err) == [name |-> "submit", errorBefore |-> err]
OtherOp == [name |-> "other", errorBefore |-> ""]

\* tick: the tick whose detect call was rejected; at: ticks fired by then
NoReject == [tick |-> 0, at |-> 0]

NoDraw == [tick |-> 0, email |-> <<>>, dim |-> <<0, 0>>, canvas |-> <<0, 0>>]

\* ------------------------------------------------------ email validation
\* /^[^\s@]+@[^\s@]+\.[^\s@]+$/ as the NFA of the pattern:
\*   0 -[^\s@]-> 1 -[^\s@]-> 1 -@-> 2 -[^\s@]-> 3 -[^\s@]-> 3 -\.-> 4
\*   4 -[^\s@]-> 5 -[^\s@]-> 5, accepting in 5 at the end of the input.
NotSpaceAt(c) == c \notin {" ", "@"}

emailRegexStep(S, c) ==
    {q \in 1..5 :
        \/ q = 1 /\ NotSpaceAt(c) /\ (0 \in S \/ 1 \in S)
        \/ q = 2 /\ c = "@" /\ 1 \in S
        \/ q = 3 /\ NotSpaceAt(c) /\ (2 \in S \/ 3 \in S)
        \/ q = 4 /\ c = "." /\ 3 \in S
        \/ q = 5 /\ NotSpaceAt(c) /\ (4 \in S \/ 5 \in S)}

RECURSIVE emailRegexRun(_, _, _)
emailRegexRun(e, k, S) ==
    IF k > Len(e) THEN S ELSE emailRegexRun(e, k + 1, emailRegexStep(S, e[k]))

\* faulty variant: the pattern without the ".tld" part, /^[^\s@]+@[^\s@]+$/
emailRegexTest_NoTld(e) ==
    \E i \in 2..(Len(e) - 1) :
        /\ e[i] = "@"
        /\ \A k \in (1..Len(e)) \ {i} : NotSpaceAt(e[k])

\* faulty variant: the local part may not hold a dot, /^[^\s@.]+@[^\s@]+\.[^\s@]+$/
emailRegexTest_NoDotLocal(e) ==
    \E i \in 2..Len(e) :
        /\ e[i] = "@"
        /\ \A k \in 1..(i - 1) : NotSpaceAt(e[k]) /\ e[k] # "."
        /\ 5 \in emailRegexRun(e, i, {1})

emailRegexTest(e) == 5 \in emailRegexRun(e, 1, {0})

\* the message handleStartSurveillance sets, "" when the email is accepted
ValidationError(e) ==
    IF e = <<>> THEN ErrRequired
    ELSE IF ~emailRegexTest(e) THEN ErrInvalid
    ELSE ""

\* ------------------------------------------------------------ rendering
\* faulty variant: the form stays on screen after activation
FormRendered_Always(s) == TRUE

\* if (!started) return <form>
FormRendered(s) == ~s

\* the refs React attaches on commit: Webcam and canvas exist only in the
\* started, not-loading branch of the render
RefAfterCommit(ph, s, l, el) ==
    IF ph = "mounted" /\ s /\ ~l THEN el ELSE Null

\* faulty variant: the effect was written without its `if (started)` guard
ShouldRunCoco_NoGuard(s) == TRUE

\* if (started) { runCoco(); showMyVideo(); }
ShouldRunCoco(s) == s

\* faulty variant: an empty dependency list, the effect runs on mount only
DepsChanged_Never(old, new) == FALSE

\* the dependency list [started]
DepsChanged(old, new) == old # new

\* showMyVideo: copies the stream size to the element when it is ready
showMyVideo(ref, rs, attr, dim) ==
    IF ref # Null /\ rs = HAVE_ENOUGH_DATA THEN dim ELSE attr

\* faulty variant: the tick only looks at the refs, not at readyState
TickGuard_NoReadyState == canvasRef # Null /\ webCamRef # Null

\* faulty variant: a skip-if-busy guard in front of the detect call
TickGuard_SkipIfBusy ==
    /\ canvasRef # Null
    /\ webCamRef # Null
    /\ readyState = HAVE_ENOUGH_DATA
    /\ inflight = {}

\* the condition of runObjectDetection
TickGuard ==
    /\ canvasRef # Null
    /\ webCamRef # Null
    /\ readyState = HAVE_ENOUGH_DATA

TimerOf(c) == c + 1
ClosureOf(t) == t - 1

\* the cleanup returned by the effect of closure c
TimersAfterCleanup(c) ==
    IF detectInterval[c] # 0 THEN liveTimers \ {detectInterval[c]}
    ELSE liveTimers

\* ----------------------------------------------------------------- Init
Init ==
    /\ phase = "created"
    /\ email = <<>>
    /\ emailError = ""
    /\ started = FALSE
    /\ isLoading = FALSE
    /\ webCamRef = Null
    /\ canvasRef = Null
    /\ readyState = 0
    /\ videoDim \in VideoDims
    /\ videoAttr = <<0, 0>>
    /\ canvasDim = DefaultCanvas
    /\ load = [c \in Closures |-> "none"]
    /\ detectInterval = [c \in Closures |-> 0]
    /\ liveTimers = {}
    /\ effectClosure = 0
    /\ closureEmail = [c \in Closures |-> <<>>]
    /\ inflight = {}
    /\ lastDraw = NoDraw
    /\ faults = {}
    /\ loadCount = 0
    /\ tickCount = 0
    /\ detectCalls = 0
    /\ drawCount = 0
    /\ lastReject = NoReject
    /\ lastOp = OtherOp
    /\ activations = 0

\* -------------------------------------------------------------- actions
\* the effect body of closure c, run after the commit that made `started'`:
\* runCoco up to its await, then showMyVideo on the element just committed
\* (a video element that was just created has readyState 0)
RunEffect(c) ==
    /\ effectClosure' = c
    /\ closureEmail' = [closureEmail EXCEPT ![c] = email]
    /\ IF ShouldRunCoco(started')
         THEN /\ load' = [load EXCEPT ![c] = "pending"]
              /\ loadCount' = loadCount + 1
              /\ isLoading' = TRUE
              /\ videoAttr' = showMyVideo(RefAfterCommit("mounted", started', isLoading, "video"),
                                          0, videoAttr, videoDim)
         ELSE UNCHANGED <<load, loadCount, isLoading, videoAttr>>

\* first render and its effect
Mount ==
    /\ phase = "created"
    /\ phase' = "mounted"
    /\ lastOp' = OtherOp
    /\ UNCHANGED uiVars
    /\ RunEffect(0)
    /\ webCamRef' = RefAfterCommit("mounted", started, isLoading', "video")
    /\ canvasRef' = RefAfterCommit("mounted", started, isLoading', "canvas")
    /\ UNCHANGED <<readyState, videoDim, canvasDim, detectInterval, liveTimers,
                   faults>>
    /\ UNCHANGED loopVars

\* onChange of the input
SetEmail(e) ==
    /\ phase = "mounted"
    /\ FormRendered(started)
    /\ e # email
    /\ email' = e
    /\ lastOp' = OtherOp
    /\ UNCHANGED <<phase, emailError, started, isLoading, webCamRef, canvasRef,
                   canvasDim, load, detectInterval, liveTimers, effectClosure,
                   closureEmail, faults, loadCount, activations>>
    /\ UNCHANGED videoVars
    /\ UNCHANGED loopVars

\* onClick of the button: handleStartSurveillance, the re-render and, when
\* `started` changed, the cleanup of the previous effect and the new effect
handleStartSurveillance ==
    /\ phase = "mounted"
    /\ FormRendered(started)
    /\ lastOp' = SubmitOp(emailError)
    /\ UNCHANGED <<phase, email>>
    /\ IF ValidationError(email) # ""
         THEN /\ emailError' = ValidationError(email)
              /\ started' = started
         ELSE /\ emailError' = ""
              /\ started' = TRUE
    /\ activations' = IF ~started /\ started' THEN activations + 1 ELSE activations
    /\ IF DepsChanged(started, started')
         THEN /\ liveTimers' = TimersAfterCleanup(effectClosure)
              /\ RunEffect(1)
         ELSE UNCHANGED <<liveTimers, effectClosure, closureEmail, load,
                          loadCount, isLoading, videoAttr>>
    /\ webCamRef' = RefAfterCommit("mounted", started', isLoading', "video")
    /\ canvasRef' = RefAfterCommit("mounted", started', isLoading', "canvas")
    /\ UNCHANGED <<readyState, videoDim, canvasDim, detectInterval, faults>>
    /\ UNCHANGED loopVars

\* runCoco of closure c after `await cocoSSDLoad()` resolved:
\* setIsLoading(false), setInterval, then the re-render that mounts a new
\* Webcam and a new canvas (a state update of an unmounted component is
\* dropped by React)
LoadResolve(c) ==
    /\ load[c] = "pending"
    /\ load' = [load EXCEPT ![c] = "resolved"]
    /\ lastOp' = OtherOp
    /\ isLoading' = IF phase = "mounted" THEN FALSE ELSE isLoading
    /\ detectInterval' = [detectInterval EXCEPT ![c] = TimerOf(c)]
    /\ liveTimers' = liveTimers \cup {TimerOf(c)}
    /\ webCamRef' = RefAfterCommit(phase, started, isLoading', "video")
    /\ canvasRef' = RefAfterCommit(phase, started, isLoading', "canvas")
    /\ IF canvasRef = Null /\ canvasRef' # Null
         THEN readyState' = 0 /\ canvasDim' = DefaultCanvas /\ videoAttr' = <<0, 0>>
         ELSE UNCHANGED <<readyState, canvasDim, videoAttr>>
    /\ UNCHANGED <<phase, videoDim, effectClosure, closureEmail, faults, loadCount>>
    /\ UNCHANGED uiVars
    /\ UNCHANGED loopVars

\* faulty variant: the rejection is swallowed (cocoSSDLoad().catch(...)) and
\* runCoco goes on after the await as if the model had loaded
LoadReject_Caught(c) ==
    /\ load[c] = "pending"
    /\ load' = [load EXCEPT ![c] = "rejected"]
    /\ lastOp' = OtherOp
    /\ isLoading' = IF phase = "mounted" THEN FALSE ELSE isLoading
    /\ detectInterval' = [detectInterval EXCEPT ![c] = TimerOf(c)]
    /\ liveTimers' = liveTimers \cup {TimerOf(c)}
    /\ webCamRef' = RefAfterCommit(phase, started, isLoading', "video")
    /\ canvasRef' = RefAfterCommit(phase, started, isLoading', "canvas")
    /\ IF canvasRef = Null /\ canvasRef' # Null
         THEN readyState' = 0 /\ canvasDim' = DefaultCanvas /\ videoAttr' = <<0, 0>>
         ELSE UNCHANGED <<readyState, canvasDim, videoAttr>>
    /\ UNCHANGED <<phase, videoDim, effectClosure, closureEmail, faults, loadCount>>
    /\ UNCHANGED uiVars
    /\ UNCHANGED loopVars

\* `await cocoSSDLoad()` rejected: runCoco ends with an unhandled rejection
LoadReject(c) ==
    /\ load[c] = "pending"
    /\ load' = [load EXCEPT ![c] = "rejected"]
    /\ lastOp' = OtherOp
    /\ faults' = faults \cup {"load"}
    /\ UNCHANGED <<phase, isLoading, webCamRef, canvasRef, canvasDim,
                   detectInterval, liveTimers, effectClosure, closureEmail,
                   loadCount>>
    /\ UNCHANGED uiVars
    /\ UNCHANGED videoVars
    /\ UNCHANGED loopVars

\* the webcam collaborator: the stream's readiness changes
VideoReadyStateChange(rs) ==
    /\ webCamRef # Null
    /\ rs # readyState
    /\ readyState' = rs
    /\ lastOp' = OtherOp
    /\ UNCHANGED <<phase, isLoading, webCamRef, canvasRef, videoDim, videoAttr,
                   canvasDim, load, detectInterval, liveTimers, effectClosure,
                   closureEmail, faults, loadCount>>
    /\ UNCHANGED uiVars
    /\ UNCHANGED loopVars

\* the webcam collaborator: the stream's frame size changes
VideoResize(d) ==
    /\ webCamRef # Null
    /\ d # videoDim
    /\ videoDim' = d
    /\ lastOp' = OtherOp
    /\ UNCHANGED <<phase, isLoading, webCamRef, canvasRef, readyState, videoAttr,
                   canvasDim, load, detectInterval, liveTimers, effectClosure,
                   closureEmail, faults, loadCount>>
    /\ UNCHANGED uiVars
    /\ UNCHANGED loopVars

\* the interval callback of timer t: runObjectDetection(net) up to its await
Tick(t) ==
    /\ t \in liveTimers
    /\ tickCount < MaxTicks
    /\ tickCount' = tickCount + 1
    /\ lastOp' = OtherOp
    /\ IF TickGuard
         THEN /\ canvasDim' = videoDim
              /\ detectCalls' = detectCalls + 1
              /\ inflight' = inflight \cup
                    {[tick |-> tickCount + 1, dim |-> videoDim, closure |-> ClosureOf(t)]}
         ELSE UNCHANGED <<canvasDim, detectCalls, inflight>>
    /\ UNCHANGED <<phase, isLoading, webCamRef, canvasRef, load, detectInterval,
                   liveTimers, effectClosure, closureEmail, faults, loadCount,
                   lastDraw, drawCount, lastReject>>
    /\ UNCHANGED uiVars
    /\ UNCHANGED videoVars

\* faulty variant: sequencing protection, a result older than the one on
\* the canvas is dropped instead of drawn
DetectResolve_DropStale(d) ==
    /\ d \in inflight
    /\ inflight' = inflight \ {d}
    /\ lastOp' = OtherOp
    /\ IF canvasRef # Null /\ d.tick > lastDraw.tick
         THEN /\ drawCount' = drawCount + 1
              /\ lastDraw' = [tick |-> d.tick, email |-> closureEmail[d.closure],
                              dim |-> d.dim, canvas |-> canvasDim]
              /\ UNCHANGED faults
         ELSE /\ faults' = IF canvasRef # Null THEN faults ELSE faults \cup {"draw"}
              /\ UNCHANGED <<drawCount, lastDraw>>
    /\ UNCHANGED <<phase, isLoading, webCamRef, canvasRef, canvasDim, load,
                   detectInterval, liveTimers, effectClosure, closureEmail,
                   loadCount, tickCount, detectCalls, lastReject>>
    /\ UNCHANGED uiVars
    /\ UNCHANGED videoVars

\* runObjectDetection after `await net.detect(...)` resolved:
\* canvasRef.current.getContext("2d") and showPredictions; with the canvas
\* gone, getContext is called on null and the function ends with a TypeError
DetectResolve(d) ==
    /\ d \in inflight
    /\ inflight' = inflight \ {d}
    /\ lastOp' = OtherOp
    /\ IF canvasRef # Null
         THEN /\ drawCount' = drawCount + 1
              /\ lastDraw' = [tick |-> d.tick, email |-> closureEmail[d.closure],
                              dim |-> d.dim, canvas |-> canvasDim]
              /\ UNCHANGED faults
         ELSE /\ faults' = faults \cup {"draw"}
              /\ UNCHANGED <<drawCount, lastDraw>>
    /\ UNCHANGED <<phase, isLoading, webCamRef, canvasRef, canvasDim, load,
                   detectInterval, liveTimers, effectClosure, closureEmail,
                   loadCount, tickCount, detectCalls, lastReject>>
    /\ UNCHANGED uiVars
    /\ UNCHANGED videoVars

\* faulty variant: the rejection is caught and the handler stops the loop
\* with clearInterval
DetectReject_StopsLoop(d) ==
    /\ d \in inflight
    /\ inflight' = inflight \ {d}
    /\ lastOp' = OtherOp
    /\ faults' = faults \cup {"detect"}
    /\ lastReject' = [tick |-> d.tick, at |-> tickCount]
    /\ liveTimers' = liveTimers \ {TimerOf(d.closure)}
    /\ UNCHANGED <<phase, isLoading, webCamRef, canvasRef, canvasDim, load,
                   detectInterval, effectClosure, closureEmail,
                   loadCount, tickCount, detectCalls, drawCount, lastDraw>>
    /\ UNCHANGED uiVars
    /\ UNCHANGED videoVars

\* `await net.detect(...)` rejected: unhandled, nothing is drawn
DetectReject(d) ==
    /\ d \in inflight
    /\ inflight' = inflight \ {d}
    /\ lastOp' = OtherOp
    /\ faults' = faults \cup {"detect"}
    /\ lastReject' = [tick |-> d.tick, at |-> tickCount]
    /\ UNCHANGED <<phase, isLoading, webCamRef, canvasRef, canvasDim, load,
                   detectInterval, liveTimers, effectClosure, closureEmail,
                   loadCount, tickCount, detectCalls, drawCount, lastDraw>>
    /\ UNCHANGED uiVars
    /\ UNCHANGED videoVars

\* faulty variant: the cleanup also aborts the detect calls in flight
Unmount_CancelsInFlight ==
    /\ phase = "mounted"
    /\ phase' = "unmounted"
    /\ lastOp' = OtherOp
    /\ liveTimers' = TimersAfterCleanup(effectClosure)
    /\ webCamRef' = Null
    /\ canvasRef' = Null
    /\ inflight' = {}
    /\ UNCHANGED <<isLoading, canvasDim, load, detectInterval, effectClosure,
                   closureEmail, faults, loadCount, lastDraw, tickCount,
                   detectCalls, drawCount, lastReject>>
    /\ UNCHANGED uiVars
    /\ UNCHANGED videoVars

\* unmount: the registered cleanup runs and React detaches the refs
Unmount ==
    /\ phase = "mounted"
    /\ phase' = "unmounted"
    /\ lastOp' = OtherOp
    /\ liveTimers' = TimersAfterCleanup(effectClosure)
    /\ webCamRef' = Null
    /\ canvasRef' = Null
    /\ UNCHANGED <<isLoading, canvasDim, load, detectInterval, effectClosure,
                   closureEmail, faults, loadCount>>
    /\ UNCHANGED uiVars
    /\ UNCHANGED videoVars
    /\ UNCHANGED loopVars

Next ==
    \/ Mount
    \/ \E e \in Edits(email) : SetEmail(e)
    \/ handleStartSurveillance
    \/ \E c \in Closures : LoadResolve(c)
    \/ \E c \in Closures : LoadReject(c)
    \/ \E rs \in 0..HAVE_ENOUGH_DATA : VideoReadyStateChange(rs)
    \/ \E d \in VideoDims : VideoResize(d)
    \/ \E t \in liveTimers : Tick(t)
    \/ \E d \in inflight : DetectResolve(d)
    \/ \E d \in inflight : DetectReject(d)
    \/ Unmount

Spec == Init /\ [][Next]_vars

\* the event loop runs what is ready to run: the continuation of a settled
\* promise, and the callback of a live interval every period
LiveSpec ==
    /\ Init /\ [][Next]_vars
    /\ WF_vars(\E c \in Closures : LoadResolve(c))
    /\ WF_vars(\E t \in liveTimers : Tick(t))
    /\ WF_vars(\E d \in inflight : DetectResolve(d))

TypeOK ==
    /\ phase \in {"created", "mounted", "unmounted"}
    /\ email \in Emails
    /\ emailError \in {"", ErrRequired, ErrInvalid}
    /\ started \in BOOLEAN /\ isLoading \in BOOLEAN
    /\ liveTimers \subseteq {TimerOf(c) : c \in Closures}
    /\ tickCount \in 0..MaxTicks

\* ================================================================ claims
\* the pattern local@domain.tld read off the regular expression: no white
\* space, exactly one "@", a non-empty local part, and a dot after the "@"
\* with at least one character on each side of it
MatchesPattern(e) ==
    LET ats == {i \in 1..Len(e) : e[i] = "@"}
    IN  /\ Cardinality(ats) = 1
        /\ \A k \in 1..Len(e) : e[k] # " "
        /\ \E i \in ats :
              /\ i > 1
              /\ \E j \in (i + 2)..(Len(e) - 1) : e[j] = "."

VideoSourceReady ==
    canvasRef # Null /\ webCamRef # Null /\ readyState = 4

\* C1: a submission of an email that does not match the pattern (the empty
\* string included) sets a non-empty error, leaves `started` false and
\* initiates no model load and no timer.
C1_InvalidEmailRejected ==
    [][(lastOp'.name = "submit" /\ ~MatchesPattern(email))
         => /\ emailError' # ""
            /\ ~started'
            /\ loadCount' = 0
            /\ load' = load
            /\ liveTimers' = {}]_vars

C1_Witness ==
    /\ lastOp.name = "submit"
    /\ ~MatchesPattern(email)
    /\ email # <<>>
    /\ emailError = ErrInvalid
    /\ ~started

\* C2: a submission of an email that matches the pattern clears the error
\* and sets `started`, whatever submissions were rejected before it, and
\* `started` goes from false to true at most once in a behaviour and exactly
\* once when such a submission has happened.
C2_ValidEmailActivatesOnce ==
    /\ [](activations <= 1)
    /\ [][(lastOp'.name = "submit" /\ MatchesPattern(email))
            => /\ emailError' = ""
               /\ ~started /\ started'
               /\ activations' = 1]_vars

C2_Witness ==
    /\ lastOp = SubmitOp(ErrInvalid)
    /\ MatchesPattern(email)
    /\ started
    /\ emailError = ""
    /\ activations = 1

\* C3: once `started` is true it stays true across every later step, and no
\* submission happens any more.
C3_StartedNeverReset ==
    [][started => (started' /\ lastOp'.name # "submit")]_vars

C3_Witness ==
    /\ started
    /\ phase = "unmounted"
    /\ drawCount > 0
    /\ faults # {}

\* C4: no model load is initiated before activation, exactly one has been
\* initiated in every state after it, and a closure's interval is created
\* only once its load has resolved.
C4_OneLoadThenTimer ==
    /\ ~started => loadCount = 0
    /\ started => loadCount = 1
    /\ \A c \in Closures : detectInterval[c] # 0 => load[c] = "resolved"
    /\ \A t \in liveTimers : load[ClosureOf(t)] = "resolved"

C4_Witness ==
    /\ started
    /\ loadCount = 1
    /\ liveTimers # {}
    /\ tickCount > 0

\* C5: at most one interval timer is live in every reachable state.
C5_AtMostOneTimer == Cardinality(liveTimers) <= 1

C5_Witness ==
    /\ Cardinality(liveTimers) = 1
    /\ inflight # {}
    /\ drawCount > 0

\* C6: a live timer, a tick that fired or a detect call implies that
\* `started` is true and that the model load has resolved.
C6_LoopOnlyWhenActivatedAndLoaded ==
    (liveTimers # {} \/ tickCount > 0 \/ detectCalls > 0 \/ inflight # {})
        => /\ started
           /\ \E c \in Closures : load[c] = "resolved"
           /\ \A d \in inflight : load[d.closure] = "resolved"

C6_Witness ==
    /\ liveTimers # {}
    /\ inflight # {}
    /\ started
    /\ load[1] = "resolved"

\* C7: after teardown no interval timer is live, whenever the teardown
\* happened (also when the model load resolves after it).
C7_NoTimerAfterTeardown == phase = "unmounted" => liveTimers = {}

\* C8: a tick that finds the video source not ready is a no-op: no detect
\* call, no drawing, the canvas size unchanged, nothing left pending.
C8_NotReadyTickIsNoOp ==
    [][(tickCount' # tickCount /\ ~VideoSourceReady)
         => /\ inflight' = inflight
            /\ detectCalls' = detectCalls
            /\ drawCount' = drawCount
            /\ lastDraw' = lastDraw
            /\ canvasDim' = canvasDim]_vars

C8_Witness ==
    /\ tickCount > detectCalls
    /\ canvasRef # Null
    /\ readyState # 4
    /\ canvasDim # videoDim

\* C9: when a tick's results are drawn, the canvas has the size the video
\* frame had at the start of that same tick.
C9_CanvasMatchesTickFrame == drawCount > 0 => lastDraw.canvas = lastDraw.dim

\* C10: ticks are not held back by detect calls in flight: every tick that
\* finds the video source ready starts one more detect call, so several are
\* in flight at once.
C10_TicksOverlap ==
    [][(tickCount' # tickCount /\ VideoSourceReady)
         => /\ detectCalls' = detectCalls + 1
            /\ Cardinality(inflight') = Cardinality(inflight) + 1]_vars

C10_Witness == Cardinality(inflight) >= 2

\* C11: detect calls are issued in tick order (a new call carries the
\* number of the tick just fired, higher than every call in flight), but a
\* call that resolves is handed to the renderer whatever was drawn before
\* it, so the result of an earlier tick can be painted last.
C11_DrawsNotSequenced ==
    /\ [][\A d \in inflight' \ inflight :
            /\ d.tick = tickCount'
            /\ tickCount' = tickCount + 1
            /\ \A x \in inflight : x.tick < d.tick]_vars
    /\ [][\A d \in inflight \ inflight' :
            (lastReject' = lastReject /\ canvasRef # Null)
                => /\ drawCount' = drawCount + 1
                   /\ lastDraw'.tick = d.tick]_vars

\* two results were drawn and the one of tick 1 was drawn last
C11_Witness ==
    /\ drawCount >= 2
    /\ lastDraw.tick = 1
    /\ lastReject = NoReject

\* C12: isLoading is true exactly while a model load is pending, and no
\* timer runs and no tick or detect call has happened while it is true.
C12_LoadingExactlyWhilePending ==
    /\ isLoading <=> (\E c \in Closures : load[c] = "pending")
    /\ isLoading => (liveTimers = {} /\ inflight = {})

\* C13: a rejected model load is final and is not retried; after it no
\* timer is ever created, no tick fires, no detect call is made, isLoading
\* stays true, and the rejection leaves `started` and the email error as
\* they were.
C13_LoadRejectionIsTerminal ==
    /\ [](\A c \in Closures : load[c] = "rejected" =>
            /\ "load" \in faults
            /\ detectInterval[c] = 0
            /\ liveTimers = {}
            /\ tickCount = 0 /\ detectCalls = 0 /\ drawCount = 0
            /\ inflight = {}
            /\ isLoading
            /\ started /\ emailError = ""
            /\ loadCount = 1)
    /\ [][\A c \in Closures :
            /\ load[c] = "rejected" => load'[c] = "rejected"
            /\ (load[c] = "pending" /\ load'[c] = "rejected")
                 => /\ started' = started
                    /\ emailError' = emailError
                    /\ isLoading' = isLoading]_vars

C13_Witness ==
    /\ load[1] = "rejected"
    /\ phase = "mounted"
    /\ isLoading
    /\ liveTimers = {}

\* C14: a rejected detect call draws nothing for its tick and leaves the
\* timer as it was, and after a rejection every tick that finds the video
\* source ready still starts a detect call on the loaded model.
C14_DetectRejectionKeepsLoop ==
    /\ [](lastReject # NoReject =>
            /\ "detect" \in faults
            /\ lastDraw.tick # lastReject.tick
            /\ \A d \in inflight : d.tick # lastReject.tick)
    /\ [][lastReject' # lastReject =>
            /\ drawCount' = drawCount
            /\ lastDraw' = lastDraw
            /\ liveTimers' = liveTimers
            /\ detectInterval' = detectInterval]_vars
    /\ [][(lastReject # NoReject /\ tickCount' # tickCount /\ VideoSourceReady)
            => /\ detectCalls' = detectCalls + 1
               /\ \E d \in inflight' \ inflight :
                     /\ d.tick = tickCount'
                     /\ load[d.closure] = "resolved"]_vars

\* a detect call was started by a tick that fired after a rejection
C14_Witness ==
    /\ lastReject.at > 0
    /\ liveTimers # {}
    /\ \E d \in inflight : d.tick > lastReject.at

\* C15: teardown leaves a pending model load and the detect calls in flight
\* as they are; they can still complete, and their continuations run: a load
\* resolving after teardown creates the interval, a detect call resolving
\* after teardown gets as far as canvasRef.current.getContext, where the
\* detached ref makes it throw.
C15_TeardownCancelsOnlyTimer ==
    /\ [](phase = "unmounted" =>
            /\ \A c \in Closures : load[c] = "pending" => ENABLED LoadResolve(c)
            /\ \A d \in inflight : ENABLED DetectResolve(d))
    /\ [][(phase = "mounted" /\ phase' = "unmounted")
            => (inflight' = inflight /\ load' = load)]_vars
    /\ [][\A c \in Closures :
            (phase = "unmounted" /\ load[c] = "pending" /\ load'[c] = "resolved")
                => /\ TimerOf(c) \in liveTimers'
                   /\ detectInterval'[c] = TimerOf(c)]_vars
    /\ [][\A d \in inflight \ inflight' :
            (phase = "unmounted" /\ lastReject' = lastReject)
                => /\ "draw" \in faults'
                   /\ drawCount' = drawCount]_vars

\* a detect call that was in flight at teardown has completed after it
C15_Witness ==
    /\ phase = "unmounted"
    /\ "draw" \in faults
    /\ lastReject = NoReject
    /\ detectCalls > drawCount

\* C16: the email handed to showPredictions matches the pattern and is the
\* value `email` had at the accepted submission, which is the value of the
\* state ever after.
C16_DrawUsesSubmittedEmail ==
    /\ [](drawCount > 0 =>
            /\ MatchesPattern(lastDraw.email)
            /\ lastDraw.email = closureEmail[1]
            /\ lastDraw.email = email)
    /\ [][(lastOp'.name = "submit" /\ started')
            => closureEmail'[1] = email]_vars
    /\ [][started => (closureEmail'[1] = closureEmail[1] /\ email' = email)]_vars

C16_Witness ==
    /\ drawCount > 0
    /\ emailError = ""
    /\ lastDraw.email = email
    /\ Len(lastDraw.email) = 5

\* C17: as long as the model load is pending the component stays in
\* ModelLoading (nothing but the load settling ends it).  If the component
\* is never torn down and the load is never rejected, activation leads to
\* the resolved load and a live timer; if moreover no detect call is
\* rejected and the video source becomes ready for good while the modelled
\* window still has a tick left, activation leads to a detect call and to a
\* drawn result.
C17_EventuallyDraws ==
    /\ [](\A c \in Closures : load[c] = "pending" =>
            (isLoading /\ detectInterval[c] = 0 /\ tickCount = 0))
    /\ ( /\ [](phase # "unmounted")
         /\ [](\A c \in Closures : load[c] # "rejected") )
           => (started ~> (load[1] = "resolved" /\ liveTimers # {}))
    /\ ( /\ [](phase # "unmounted")
         /\ [](\A c \in Closures : load[c] # "rejected")
         /\ [](lastReject = NoReject)
         /\ <>(tickCount < MaxTicks /\ [](readyState = 4)) )
           => (started ~> (detectCalls > 0 /\ drawCount > 0))

C17_Witness ==
    /\ phase = "mounted"
    /\ started
    /\ faults = {}
    /\ readyState = 4
    /\ detectCalls > 0
    /\ drawCount > 0
====
